---- MODULE Spec2Model ----
(***************************************************************************)
(* Model of src/main.rs: get_camera (device enumeration, matching, the     *)
(* format / size / interval searches and the format commit), main (stream  *)
(* opening, start of the redraw loop) and MyApp::update (one redraw tick:  *)
(* acquire, lock, decode, render, log, request repaint).                   *)
(*                                                                         *)
(* The driver and the devices are the environment: every answer they give  *)
(* (the next enumerated device, a capability listing, a frame) is drawn    *)
(* from a small set when the code asks for it.                             *)
(***************************************************************************)
EXTENDS Integers, Sequences, FiniteSets, TLC

VARIABLES
    pc,         \* position of main / get_camera / update
    err,        \* the error main terminated with (NoErr while none)
    failedAt,   \* the position at which the fatal error was raised
    inspected,  \* number of devices opened by the enumeration loop
    last,       \* capabilities read from the device inspected last
    dev,        \* the device the loop broke out with (NoDev while none)
    queries,    \* the capability listings asked from the device, in order
    listing,    \* the listing the running search iterates over
    pixels,     \* result of the pixel format search
    size,       \* result of the size search
    interval,   \* result of the interval search
    origFormat, \* the capture format of the device before get_camera ran
    devFormat,  \* the capture format the device currently holds
    capture_format, \* get_camera's local copy of the format descriptor
    writes,     \* formats pushed to the device by set_format, in order
    avail,      \* buffers of the stream that are in the driver's pool
    held,       \* TRUE while update holds a buffer reference
    locked,     \* TRUE while update holds the buffer lock
    frame,      \* payload of the buffer acquired in this tick
    rgba8,      \* the image decoded in this tick
    texture,    \* the texture shown in this tick
    tickErr,    \* the error raised inside this tick
    outcome,    \* how far the pipeline of this tick got
    prev,       \* outcome of the tick before this one
    logged,     \* lines printed by this tick
    repaint     \* TRUE once this tick has requested a repaint

negVars == <<inspected, last, dev, queries, listing, pixels, size, interval>>
fmtVars == <<origFormat, devFormat, capture_format, writes>>
tickVars == <<avail, held, locked, frame, rgba8, texture, tickErr, outcome,
              prev, logged, repaint>>
vars == <<pc, err, failedAt, negVars, fmtVars, tickVars>>

(***************************************************************************)
(* Bounds of the model.                                                    *)
(***************************************************************************)
\* devices the enumeration yields at most
MaxDevs == 2
\* entries of a pixel format listing at most
MaxFormats == 3
\* entries of a size listing or an interval listing at most
MaxLen == 2

(***************************************************************************)
(* Program constants.                                                      *)
(***************************************************************************)
CARD == "USB 2.0 Camera: HD USB Camera"
CAPS_REQ_1 == "VideoCapture"
CAPS_REQ_2 == "ExtPixFormat"
CAPS_REQ_3 == "Streaming"
caps_req == {CAPS_REQ_1, CAPS_REQ_2, CAPS_REQ_3}
Mjpeg == "MJPG"
TargetWidth == 320
TargetHeight == 240
TargetNumerator == 513
TargetDenominator == 61612
NumBuffers == 4

ErrNoCamera == "cannot find camera"
ErrFormat == "MJPG format not supported"
\* the message of the format search used for the size search too
ErrSize_copied == "MJPG format not supported"
ErrSize == "320x240 resolution not supported"
ErrInterval == "interval 513/61612 not supported"
ErrPixFormat == "cannot set pixel format"
ErrGetFrame == "cannot get frame"
ErrDecoder == "cannot get decoder"
\* an error of the driver or a library, propagated unchanged by `?`
IoError == "io error"
NoErr == ""

(***************************************************************************)
(* What the environment can answer.                                        *)
(***************************************************************************)
Flags == {CAPS_REQ_1, CAPS_REQ_2, CAPS_REQ_3, "ReadWrite", "MetaCapture"}
Cards == {CARD, "TESTCAM"}
Devices == [card : Cards, caps : SUBSET Flags]
NoDev == [card |-> "", caps |-> {}]

FourCcs == {Mjpeg, "YUYV", "H264"}
\* an entry of a listing: ok = FALSE is an entry the driver reports as error
FmtKinds == {[ok |-> FALSE, fourcc |-> ""]} \cup
            {[ok |-> TRUE, fourcc |-> c] : c \in FourCcs}
\* sizes = what the entry's sizes() iterator yields
SizeKinds == {[ok |-> FALSE, kind |-> "", sizes |-> {}],
              [ok |-> TRUE, kind |-> "discrete", sizes |-> {<<640, 480>>}],
              [ok |-> TRUE, kind |-> "discrete", sizes |-> {<<320, 240>>}],
              [ok |-> TRUE, kind |-> "discrete", sizes |-> {<<320, 480>>}],
              [ok |-> TRUE, kind |-> "stepwise",
               sizes |-> {<<160, 120>>, <<320, 240>>, <<480, 360>>}],
              [ok |-> TRUE, kind |-> "stepwise",
               sizes |-> {<<640, 480>>, <<1280, 960>>}]}
IvalKinds == {[ok |-> FALSE, kind |-> "", numerator |-> 0, denominator |-> 0],
              [ok |-> TRUE, kind |-> "discrete", numerator |-> 513, denominator |-> 61612],
              [ok |-> TRUE, kind |-> "discrete", numerator |-> 1, denominator |-> 30],
              [ok |-> TRUE, kind |-> "discrete", numerator |-> 513, denominator |-> 30],
              [ok |-> TRUE, kind |-> "discrete", numerator |-> 1, denominator |-> 61612],
              [ok |-> TRUE, kind |-> "stepwise", numerator |-> 513, denominator |-> 61612]}

\* the listings of at most max entries over a set of entry kinds
Listings(K, max) == UNION {[1..n -> K] : n \in 0..max}

NoFormat == [ok |-> FALSE, fourcc |-> "", index |-> 0]
NoSize == [ok |-> FALSE, kind |-> "", sizes |-> {}, index |-> 0]
NoInterval == [ok |-> FALSE, kind |-> "", numerator |-> 0, denominator |-> 0, index |-> 0]

\* a capture format descriptor: type "pix" is the single-planar PixFormat
Descriptors == {[type |-> "pix", pixel_format |-> "YUYV", width |-> 640, height |-> 480],
                [type |-> "pix", pixel_format |-> Mjpeg, width |-> 1280, height |-> 720],
                [type |-> "mplane", pixel_format |-> "YUYV", width |-> 640, height |-> 480]}
NoDescriptor == [type |-> "", pixel_format |-> "", width |-> 0, height |-> 0]

\* payload of a delivered buffer
Frames == {[jpeg |-> "bad_header", width |-> 0, height |-> 0],
           [jpeg |-> "bad_body", width |-> 320, height |-> 240],
           [jpeg |-> "ok", width |-> 320, height |-> 240],
           [jpeg |-> "ok", width |-> 640, height |-> 480],
           [jpeg |-> "ok", width |-> 240, height |-> 320]}
NoFrame == [jpeg |-> "", width |-> 0, height |-> 0]
NoImage == [width |-> 0, height |-> 0, len |-> 0]
NoTexture == [width |-> 0, height |-> 0, pixels |-> 0]

Init ==
    /\ pc = "list"
    /\ err = NoErr
    /\ failedAt = ""
    /\ inspected = 0
    /\ last = NoDev
    /\ dev = NoDev
    /\ queries = <<>>
    /\ listing = <<>>
    /\ pixels = NoFormat
    /\ size = NoSize
    /\ interval = NoInterval
    /\ origFormat \in Descriptors
    /\ devFormat = origFormat
    /\ capture_format = NoDescriptor
    /\ writes = <<>>
    /\ avail = 0
    /\ held = FALSE
    /\ locked = FALSE
    /\ frame = NoFrame
    /\ rgba8 = NoImage
    /\ texture = NoTexture
    /\ tickErr = NoErr
    /\ outcome = "none"
    /\ prev = "none"
    /\ logged = 0
    /\ repaint = FALSE

\* the error e noted, main going on to open the stream
Fail_swallow(e) ==
    /\ pc' = "stream"
    /\ err' = e
    /\ failedAt' = pc

\* main returns the error e raised at the current position
Fail(e) ==
    /\ pc' = "failed"
    /\ err' = e
    /\ failedAt' = pc

(***************************************************************************)
(* get_camera: enumeration and matching                                    *)
(***************************************************************************)
ListDevices ==
    /\ pc = "list"
    /\ \/ pc' = "enum" /\ UNCHANGED <<err, failedAt>>
       \/ Fail(IoError)
    /\ UNCHANGED <<negVars, fmtVars, tickVars>>

\* the test with the identity comparison left out
Matches_anyCard(d) == d.caps = caps_req

\* the test with containment of the required flags instead of equality
Matches_superset(d) == d.card = CARD /\ caps_req \subseteq d.caps

Matches(d) == d.card = CARD /\ d.caps = caps_req

\* the error of a candidate device noted, the loop going on with the next
\* device
Abort_skip(at, e) ==
    /\ pc' = "enum"
    /\ err' = e
    /\ failedAt' = at

\* Device::open(&path)? and dev.capabilities()?: get_camera returns the
\* error e raised at the step `at` of the iteration
Abort(at, e) ==
    /\ pc' = "failed"
    /\ err' = e
    /\ failedAt' = at

\* one iteration of the loop: fetch_next, open, capabilities, the test
Inspect ==
    /\ pc = "enum"
    /\ \/ \* fetch_next fails
          /\ Fail(IoError)
          /\ UNCHANGED <<inspected, last, dev>>
       \/ \* the enumeration is exhausted: break None
          /\ pc' = "ok_or_else"
          /\ UNCHANGED <<err, failedAt, inspected, last, dev>>
       \/ \* a path is fetched, open fails
          /\ inspected < MaxDevs
          /\ Abort("open", IoError)
          /\ UNCHANGED <<inspected, last, dev>>
       \/ \* the device opens, reading its capabilities fails
          /\ inspected < MaxDevs
          /\ Abort("capabilities", IoError)
          /\ inspected' = inspected + 1
          /\ UNCHANGED <<last, dev>>
       \/ \E d \in Devices :
             /\ inspected < MaxDevs
             /\ inspected' = inspected + 1
             /\ last' = d
             /\ IF Matches(d)
                   THEN dev' = d /\ pc' = "ok_or_else"
                   ELSE dev' = dev /\ pc' = "enum"
             /\ UNCHANGED <<err, failedAt>>
    /\ UNCHANGED <<queries, listing, pixels, size, interval, fmtVars, tickVars>>

\* the loop's value taken for Some whatever it is
Found_always(d) == TRUE

\* the loop's value is Some(dev)
Found(d) == d # NoDev

\* dev.ok_or_else(|| anyhow::Error::msg("cannot find camera"))?
OkOrElse ==
    /\ pc = "ok_or_else"
    /\ IF Found(dev)
          THEN pc' = "formats" /\ UNCHANGED <<err, failedAt>>
          ELSE Fail(ErrNoCamera)
    /\ UNCHANGED <<negVars, fmtVars, tickVars>>

(***************************************************************************)
(* get_camera: the three searches                                          *)
(***************************************************************************)
\* find_map: the first of the positions whose entry passes the test, 0 when
\* no entry does
FirstIndex(hits) ==
    IF hits = {} THEN 0 ELSE CHOOSE i \in hits : \A j \in hits : i <= j

\* the entries up to the first one the driver reports as an error
Usable_untilError(l) == {k \in DOMAIN l : \A j \in 1..k : l[j].ok}

\* the positions of the entries the driver does not report as an error: the
\* searches pass over the others
Usable(l) == {k \in DOMAIN l : l[k].ok}

\* the test accepting any entry the driver does not report as an error
FormatMatches_anyFormat(f) == f.ok

FormatMatches(f) == f.ok /\ f.fourcc = Mjpeg

\* the test comparing the width only
SizeMatches_widthOnly(s) == s.ok /\ \E p \in s.sizes : p[1] = TargetWidth

SizeMatches(s) ==
    s.ok /\ \E p \in s.sizes : p[1] = TargetWidth /\ p[2] = TargetHeight

\* the test leaving out the check that the entry is a FrmIvalDiscrete
IntervalMatches_anyKind(i) ==
    /\ i.ok
    /\ i.numerator = TargetNumerator
    /\ i.denominator = TargetDenominator

IntervalMatches(i) ==
    /\ i.ok
    /\ i.kind = "discrete"
    /\ i.numerator = TargetNumerator
    /\ i.denominator = TargetDenominator

FormatSearch ==
    /\ pc = "formats"
    /\ \E l \in Listings(FmtKinds, MaxFormats) :
          LET i == FirstIndex({k \in Usable(l) : FormatMatches(l[k])}) IN
          /\ listing' = l
          /\ IF i = 0
                THEN Fail(ErrFormat) /\ pixels' = pixels
                ELSE /\ pixels' = [ok |-> TRUE, fourcc |-> l[i].fourcc, index |-> i]
                     /\ pc' = "sizes"
                     /\ UNCHANGED <<err, failedAt>>
    /\ queries' = Append(queries, "formats")
    /\ UNCHANGED <<inspected, last, dev, size, interval, fmtVars, tickVars>>

SizeSearch ==
    /\ pc = "sizes"
    /\ \E l \in Listings(SizeKinds, MaxLen) :
          LET i == FirstIndex({k \in Usable(l) : SizeMatches(l[k])}) IN
          /\ listing' = l
          /\ IF i = 0
                THEN Fail(ErrSize) /\ size' = size
                ELSE /\ size' = [ok |-> TRUE, kind |-> l[i].kind,
                                 sizes |-> l[i].sizes, index |-> i]
                     /\ pc' = "intervals"
                     /\ UNCHANGED <<err, failedAt>>
    /\ queries' = Append(queries, "sizes")
    /\ UNCHANGED <<inspected, last, dev, pixels, interval, fmtVars, tickVars>>

IntervalSearch ==
    /\ pc = "intervals"
    /\ \E l \in Listings(IvalKinds, MaxLen) :
          LET i == FirstIndex({k \in Usable(l) : IntervalMatches(l[k])}) IN
          /\ listing' = l
          /\ IF i = 0
                THEN Fail(ErrInterval) /\ interval' = interval
                ELSE /\ interval' = [ok |-> TRUE, kind |-> l[i].kind,
                                     numerator |-> l[i].numerator,
                                     denominator |-> l[i].denominator,
                                     index |-> i]
                     /\ pc' = "format"
                     /\ UNCHANGED <<err, failedAt>>
    /\ queries' = Append(queries, "intervals")
    /\ UNCHANGED <<inspected, last, dev, pixels, size, fmtVars, tickVars>>

(***************************************************************************)
(* get_camera: the commit                                                  *)
(***************************************************************************)
\* device.format(BufferType::VideoCapture)?
ReadFormat ==
    /\ pc = "format"
    /\ \/ /\ capture_format' = devFormat
          /\ pc' = "try_mut"
          /\ UNCHANGED <<err, failedAt>>
       \/ /\ Fail(IoError)
          /\ UNCHANGED capture_format
    /\ listing' = <<>>
    /\ UNCHANGED <<inspected, last, dev, queries, pixels, size, interval,
                   origFormat, devFormat, writes, tickVars>>

\* the closure applied to the descriptor seen as a PixFormat, the call of
\* set_pixel_format left out
SetPix_keepFormat(d, p) ==
    [d EXCEPT !.width = TargetWidth, !.height = TargetHeight]

\* the closure applied to the descriptor seen as a PixFormat, width and
\* height exchanged
SetPix_swapped(d, p) ==
    [d EXCEPT !.pixel_format = p.fourcc,
              !.width = TargetHeight, !.height = TargetWidth]

\* the closure applied to the descriptor seen as a PixFormat
SetPix(d, p) ==
    [d EXCEPT !.pixel_format = p.fourcc,
              !.width = TargetWidth, !.height = TargetHeight]

\* try_mut::<PixFormat>().map(..).ok_or_else(..)?
TryMut ==
    /\ pc = "try_mut"
    /\ IF capture_format.type = "pix"
          THEN /\ capture_format' = SetPix(capture_format, pixels)
               /\ pc' = "set_format"
               /\ UNCHANGED <<err, failedAt>>
          ELSE /\ Fail(ErrPixFormat)
               /\ UNCHANGED capture_format
    /\ UNCHANGED <<negVars, origFormat, devFormat, writes, tickVars>>

\* device.set_format(&mut capture_format)?  and  Ok(device)
SetFormat ==
    /\ pc = "set_format"
    /\ \/ /\ devFormat' = capture_format
          /\ writes' = Append(writes, capture_format)
          /\ pc' = "stream"
          /\ UNCHANGED <<err, failedAt>>
       \/ /\ Fail(IoError)
          /\ UNCHANGED <<devFormat, writes>>
    /\ UNCHANGED <<negVars, origFormat, capture_format, tickVars>>

(***************************************************************************)
(* main                                                                    *)
(***************************************************************************)
\* camera.stream::<In, Mmap>(ContentType::Video, 4)?
OpenStream ==
    /\ pc = "stream"
    /\ \/ /\ avail' = NumBuffers
          /\ pc' = "run_native"
          /\ UNCHANGED <<err, failedAt>>
       \/ /\ Fail(IoError)
          /\ UNCHANGED avail
    /\ UNCHANGED <<negVars, fmtVars, held, locked, frame, rgba8, texture,
                   tickErr, outcome, prev, logged, repaint>>

\* eframe::run_native(..): the window is created and the redraw loop starts
RunNative ==
    /\ pc = "run_native"
    /\ \/ pc' = "tick" /\ UNCHANGED <<err, failedAt>>
       \/ Fail(IoError)
    /\ UNCHANGED <<negVars, fmtVars, tickVars>>

(***************************************************************************)
(* MyApp::update: one redraw tick                                          *)
(***************************************************************************)
\* the widgets are drawn, then self.stream.next()
Acquire ==
    /\ pc = "tick"
    /\ prev' = outcome
    /\ rgba8' = NoImage
    /\ texture' = NoTexture
    /\ logged' = 0
    /\ repaint' = FALSE
    /\ \/ \E f \in Frames :
             /\ avail > 0
             /\ avail' = avail - 1
             /\ held' = TRUE
             /\ frame' = f
             /\ tickErr' = NoErr
             /\ outcome' = "running"
             /\ pc' = "lock"
       \/ /\ frame' = NoFrame
          /\ tickErr' = ErrGetFrame
          /\ outcome' = "acquire_failed"
          /\ pc' = "log"
          /\ UNCHANGED <<avail, held>>
    /\ UNCHANGED <<err, failedAt, negVars, fmtVars, locked>>

\* buf_ref.lock(), locked.as_ref(), JpegDecoder::new(buf)
NewDecoder ==
    /\ pc = "lock"
    /\ locked' = TRUE
    /\ IF frame.jpeg = "bad_header"
          THEN /\ tickErr' = ErrDecoder
               /\ outcome' = "decoder_failed"
               /\ pc' = "scope_end"
          ELSE /\ pc' = "decode"
               /\ UNCHANGED <<tickErr, outcome>>
    /\ UNCHANGED <<err, failedAt, negVars, fmtVars, avail, held, frame, rgba8,
                   texture, prev, logged, repaint>>

\* DynamicImage::from_decoder(decoder), img.to_rgba8()
Decode ==
    /\ pc = "decode"
    /\ IF frame.jpeg = "ok"
          THEN /\ rgba8' = [width |-> frame.width, height |-> frame.height,
                            len |-> frame.width * frame.height * 4]
               /\ outcome' = "decoded"
               /\ pc' = "render"
               /\ UNCHANGED tickErr
          ELSE /\ tickErr' = ErrDecoder
               /\ outcome' = "decode_failed"
               /\ pc' = "scope_end"
               /\ UNCHANGED rgba8
    /\ UNCHANGED <<err, failedAt, negVars, fmtVars, avail, held, locked, frame,
                   texture, prev, logged, repaint>>

\* dropping the lock guard and the buffer reference without giving the
\* buffer back
DropGuard_leak(n) == n

\* dropping the lock guard and the buffer reference gives the buffer back
DropGuard(n) == n + 1

\* ColorImage::from_rgba_unmultiplied([320, 240], &rgba8) asserts that the
\* slice holds 320 * 240 * 4 bytes and panics otherwise; then load_texture
\* and ui.image.  The panic unwinds through the closure, which drops the
\* guard and the buffer reference, and ends the process.
Render ==
    /\ pc = "render"
    /\ IF TargetWidth * TargetHeight * 4 = rgba8.len
          THEN /\ texture' = [width |-> TargetWidth, height |-> TargetHeight,
                              pixels |-> rgba8.len \div 4]
               /\ outcome' = "rendered"
               /\ pc' = "scope_end"
               /\ UNCHANGED <<avail, held, locked>>
          ELSE /\ pc' = "panicked"
               /\ outcome' = "panicked"
               /\ locked' = FALSE
               /\ held' = FALSE
               /\ avail' = DropGuard(avail)
               /\ UNCHANGED texture
    /\ UNCHANGED <<err, failedAt, negVars, fmtVars, frame, rgba8, tickErr,
                   prev, logged, repaint>>

\* the closure taking buf_ref returns: locked and buf_ref go out of scope
ScopeEnd ==
    /\ pc = "scope_end"
    /\ locked' = FALSE
    /\ held' = FALSE
    /\ avail' = DropGuard(avail)
    /\ pc' = "log"
    /\ UNCHANGED <<err, failedAt, negVars, fmtVars, frame, rgba8, texture,
                   tickErr, outcome, prev, logged, repaint>>

\* .map_err(|err| println!(..)).ok()
Log ==
    /\ pc = "log"
    /\ logged' = IF tickErr # NoErr THEN logged + 1 ELSE logged
    /\ pc' = "repaint"
    /\ UNCHANGED <<err, failedAt, negVars, fmtVars, avail, held, locked, frame,
                   rgba8, texture, tickErr, outcome, prev, repaint>>

\* ctx.request_repaint(): update returns, the next tick is scheduled
RequestRepaint ==
    /\ pc = "repaint"
    /\ repaint' = TRUE
    /\ pc' = "tick"
    /\ UNCHANGED <<err, failedAt, negVars, fmtVars, avail, held, locked, frame,
                   rgba8, texture, tickErr, outcome, prev, logged>>

Next ==
    \/ ListDevices
    \/ Inspect
    \/ OkOrElse
    \/ FormatSearch
    \/ SizeSearch
    \/ IntervalSearch
    \/ ReadFormat
    \/ TryMut
    \/ SetFormat
    \/ OpenStream
    \/ RunNative
    \/ Acquire
    \/ NewDecoder
    \/ Decode
    \/ Render
    \/ ScopeEnd
    \/ Log
    \/ RequestRepaint

Spec == Init /\ [][Next]_vars

TypeOK ==
    /\ pc \in {"list", "enum", "ok_or_else", "formats", "sizes", "intervals", "format",
               "try_mut", "set_format", "stream", "run_native", "tick", "lock",
               "decode", "render", "scope_end", "log", "repaint", "failed",
               "panicked"}
    /\ inspected \in 0..MaxDevs
    /\ avail \in 0..NumBuffers
    /\ Len(writes) \in 0..1
    /\ logged \in 0..1

(***************************************************************************)
(* Properties                                                              *)
(***************************************************************************)
StrictSuperset(c) == caps_req \subseteq c /\ c # caps_req

\* positions of get_camera after the enumeration loop, and of main after it
AfterMatching == {"formats", "sizes", "intervals", "format", "try_mut",
                  "set_format", "stream", "run_native", "tick", "lock",
                  "decode", "render", "scope_end", "log", "repaint",
                  "panicked"}

\* positions inside one call of update
InTick == {"lock", "decode", "render", "scope_end", "log", "repaint"}

\* C1: get_camera never breaks out of the loop with, negotiates on or
\* returns a device whose card string differs from CARD, whatever its
\* capability flags are: a device with another card is never the selected
\* one, and every position after the loop is reached with a device whose
\* card is CARD.
C1_IdentityRequired ==
    /\ last.card # CARD => dev = NoDev
    /\ dev # NoDev => dev.card = CARD
    /\ pc \in AfterMatching => dev # NoDev /\ dev.card = CARD

\* C1 witness: a device with the required flags exactly but another card
\* was inspected and the loop went on.
C1_Witness ==
    /\ pc = "enum"
    /\ inspected >= 1
    /\ last.card = "TESTCAM"
    /\ last.caps = caps_req
    /\ dev = NoDev

\* C2: a device whose flags are a strict superset of the required set is
\* rejected and the loop continues, even when its card is CARD; the device
\* the loop breaks out with has exactly the required flags.
C2_ExactFlags ==
    /\ [][(/\ pc = "enum"
           /\ inspected' = inspected + 1
           /\ pc' # "failed"
           /\ StrictSuperset(last'.caps))
          => (pc' = "enum" /\ dev' = NoDev)]_vars
    /\ [](dev # NoDev => dev.caps = caps_req)

\* C2 witness: a device with the card CARD and one flag more than required
\* was inspected and the loop went on.
C2_Witness ==
    /\ pc = "enum"
    /\ inspected >= 1
    /\ last.card = CARD
    /\ StrictSuperset(last.caps)
    /\ dev = NoDev

\* C3: both failures of the commit step, the descriptor that is not a
\* PixFormat and the rejected set_format, end get_camera with the error
\* "cannot set pixel format".
C3_CommitErrors ==
    (pc = "failed" /\ failedAt \in {"try_mut", "set_format"})
        => err = "cannot set pixel format"

\* C4: the device is written at most once, by set_format carrying (MJPEG,
\* 320, 240), only after matching and the three searches succeeded; while
\* nothing was written, and in every run that fails in matching or in a
\* search, the device holds the format it had before.
C4_SingleWrite ==
    /\ Len(writes) <= 1
    /\ writes # <<>> =>
          /\ writes[1].pixel_format = Mjpeg
          /\ writes[1].pixel_format = pixels.fourcc
          /\ writes[1].width = 320
          /\ writes[1].height = 240
          /\ devFormat = writes[1]
          /\ dev # NoDev /\ pixels.ok /\ size.ok /\ interval.ok
          /\ queries = <<"formats", "sizes", "intervals">>
    /\ writes = <<>> => devFormat = origFormat
    /\ (pc = "failed" /\ failedAt \in {"list", "enum", "open", "capabilities",
                                       "ok_or_else", "formats", "sizes",
                                       "intervals"})
          => (writes = <<>> /\ devFormat = origFormat)

\* C4 witness: get_camera returned after its write, the device had another
\* format before.
C4_Witness ==
    /\ pc = "tick"
    /\ Len(writes) = 1
    /\ devFormat # origFormat

\* C5: once the acquire-lock-decode cycle of a tick is over, on every exit
\* path, the buffer acquired in the tick is back in the driver's pool: the
\* pool holds as many buffers as before the tick, after any number of ticks.
C5_BufferReleased ==
    pc \in {"log", "repaint", "tick"}
        => (avail = NumBuffers /\ ~held /\ ~locked)

\* C5 witness: a tick whose image decode failed is over, following a tick
\* whose decoder construction failed.
C5_Witness ==
    /\ pc = "tick"
    /\ outcome = "decode_failed"
    /\ prev = "decoder_failed"
    /\ avail = NumBuffers

\* C6: after a tick whose decode failed the pipeline is ready again, and
\* when the buffer acquired by the next tick is decodable that tick renders
\* it and returns.
C6_NextFrameRendered ==
    /\ (pc = "tick" /\ outcome \in {"decoder_failed", "decode_failed"})
          => (avail = NumBuffers /\ ~held /\ ~locked)
    /\ (/\ pc \in {"tick", "panicked"}
        /\ prev \in {"decoder_failed", "decode_failed"}
        /\ frame.jpeg = "ok")
          => (pc = "tick" /\ texture # NoTexture)

\* C7: a frame that decodes to an image whose dimensions are not 320x240 is
\* a recoverable error of the tick: it is logged, nothing is rendered, and
\* update returns after requesting the repaint.
C7_DimensionMismatchRecoverable ==
    (/\ pc \in {"tick", "panicked"}
     /\ frame.jpeg = "ok"
     /\ (frame.width # 320 \/ frame.height # 240))
        => (pc = "tick" /\ logged = 1 /\ texture = NoTexture /\ repaint)

\* C8: every call of update ends by requesting a repaint, whatever happened
\* in the pipeline: a started tick only ever leaves the tick by returning
\* with the repaint requested.
C8_RepaintEveryTick ==
    [][(pc \in InTick \/ pc = "tick")
          => (/\ pc' \in InTick \cup {"tick"}
              /\ (pc \in InTick /\ pc' = "tick") => repaint')]_vars

\* the positions of the listing that hold a usable MJPEG entry
MjpegEntries == {i \in DOMAIN listing : listing[i].ok /\ listing[i].fourcc = Mjpeg}

AfterFormatSearch == pc = "sizes" \/ (pc = "failed" /\ failedAt = "formats")

\* C9: when exactly one entry of the format listing has the MJPEG encoding,
\* wherever it stands, the pixel format search selects that entry; when no
\* entry has it the search fails with the "format not supported" error
\* (spelled "MJPG format not supported" by the program).
C9_FormatSearch ==
    AfterFormatSearch =>
        /\ Cardinality(MjpegEntries) = 1 =>
              /\ pc = "sizes"
              /\ pixels.index \in MjpegEntries
              /\ pixels.fourcc = Mjpeg
        /\ MjpegEntries = {} =>
              (pc = "failed" /\ err = "MJPG format not supported")

\* C9 witness: of three usable formats A, B, C only B, the second, is MJPEG
\* and it is the selected one.
C9_Witness ==
    /\ pc = "sizes"
    /\ Len(listing) = 3
    /\ \A i \in 1..3 : listing[i].ok
    /\ MjpegEntries = {2}
    /\ pixels.index = 2

AfterSizeSearch == pc = "intervals" \/ (pc = "failed" /\ failedAt = "sizes")

\* every usable entry of the size listing is a discrete size
DiscreteSizes ==
    \A i \in DOMAIN listing : listing[i].ok => listing[i].kind = "discrete"

\* some discrete entry of the size listing is the pair (320, 240)
HasTargetSize ==
    \E i \in DOMAIN listing :
        /\ listing[i].ok
        /\ listing[i].kind = "discrete"
        /\ listing[i].sizes = {<<320, 240>>}

AfterIntervalSearch ==
    pc = "format" \/ (pc = "failed" /\ failedAt = "intervals")

\* the positions of the listing that hold a discrete interval 513/61612
ExactIntervals ==
    {i \in DOMAIN listing :
        /\ listing[i].ok
        /\ listing[i].kind = "discrete"
        /\ listing[i].numerator = 513
        /\ listing[i].denominator = 61612}

\* C11: the interval search passes over the entries that are errors or not
\* discrete and selects the first discrete entry equal to 513/61612, also
\* when such entries stand before it; it fails, with the "interval not
\* supported" error (spelled "interval 513/61612 not supported" by the
\* program), exactly when no discrete entry is 513/61612.
C11_IntervalSearch ==
    AfterIntervalSearch =>
        /\ ExactIntervals # {} =>
              /\ pc = "format"
              /\ interval.index \in ExactIntervals
              /\ \A j \in ExactIntervals : interval.index <= j
              /\ interval.kind = "discrete"
        /\ ExactIntervals = {} =>
              (pc = "failed" /\ err = "interval 513/61612 not supported")

\* C11 witness: a non-discrete entry stands before the exact interval and
\* the search selected the second entry.
C11_Witness ==
    /\ pc = "format"
    /\ Len(listing) = 2
    /\ listing[1].ok
    /\ listing[1].kind = "stepwise"
    /\ ExactIntervals = {2}
    /\ interval.index = 2

\* positions reached once set_format has succeeded
AfterCommit == {"stream", "run_native", "tick", "lock", "decode", "render",
                "scope_end", "log", "repaint", "panicked"}

\* the failures of get_camera before the searches
MatchingSteps == {"list", "enum", "open", "capabilities", "ok_or_else"}

\* A device reporting the identity card and exactly the required flags, one
\* MJPEG format with the size (320, 240) and the interval 513/61612, and a
\* PixFormat descriptor: the device is selected, no search and no
\* reinterpretation of the descriptor fails on these answers, and the
\* committed configuration is (MJPEG, 320, 240).
EndToEnd(card) ==
    /\ last = [card |-> card, caps |-> caps_req] =>
          /\ dev = last
          /\ pc # "enum"
          /\ ~(pc = "failed" /\ failedAt \in MatchingSteps)
    /\ (pc = "failed" /\ failedAt = "formats") =>
          listing # <<[ok |-> TRUE, fourcc |-> Mjpeg]>>
    /\ (pc = "failed" /\ failedAt = "sizes") =>
          listing # <<[ok |-> TRUE, kind |-> "discrete", sizes |-> {<<320, 240>>}]>>
    /\ (pc = "failed" /\ failedAt = "intervals") =>
          listing # <<[ok |-> TRUE, kind |-> "discrete",
                       numerator |-> 513, denominator |-> 61612]>>
    /\ (pc = "failed" /\ failedAt = "try_mut") => origFormat.type # "pix"
    /\ pc \in AfterCommit =>
          /\ writes = <<[type |-> "pix", pixel_format |-> Mjpeg,
                         width |-> 320, height |-> 240]>>
          /\ devFormat = writes[1]

\* C12 as stated: end to end, the device reporting the identity "TESTCAM",
\* exactly the required flags, one MJPEG format with size (320, 240) and
\* interval 513/61612 is negotiated to (MJPEG, 320, 240).
C12_TestcamEndToEnd == EndToEnd("TESTCAM")

\* C12 amended: end to end, the device reporting the identity CARD ("USB 2.0
\* Camera: HD USB Camera"), exactly the required flags, one MJPEG format
\* with size (320, 240) and interval 513/61612 is negotiated to (MJPEG, 320,
\* 240).
C12_EndToEnd == EndToEnd(CARD)

\* C12 witness: the first device inspected reports CARD and the required
\* flags, the first entry of each listing was selected and (MJPEG, 320,
\* 240) is committed.
C12_Witness ==
    /\ pc = "stream"
    /\ inspected = 1
    /\ last = [card |-> CARD, caps |-> caps_req]
    /\ pixels.index = 1
    /\ size.index = 1 /\ size.kind = "discrete"
    /\ interval.index = 1
    /\ devFormat = [type |-> "pix", pixel_format |-> Mjpeg,
                    width |-> 320, height |-> 240]

\* C13: when the enumeration is exhausted without a match get_camera fails
\* with the "camera not found" error (spelled "cannot find camera" by the
\* program); no listing was asked from any device and nothing was written.
C13_NotFound ==
    /\ [][(pc = "ok_or_else" /\ dev = NoDev)
            => (pc' = "failed" /\ err' = "cannot find camera")]_vars
    /\ []((pc = "failed" /\ failedAt = "ok_or_else") =>
            /\ err = "cannot find camera"
            /\ dev = NoDev
            /\ queries = <<>>
            /\ pixels = NoFormat /\ size = NoSize /\ interval = NoInterval
            /\ writes = <<>>
            /\ devFormat = origFormat)

\* C13 witness: a device that does not match was inspected, the enumeration
\* ended and get_camera failed.
C13_Witness ==
    /\ pc = "failed"
    /\ failedAt = "ok_or_else"
    /\ inspected >= 1
    /\ last # NoDev

\* the steps of get_camera
GetCameraSteps == MatchingSteps \cup {"formats", "sizes", "intervals", "format",
                                      "try_mut", "set_format"}

\* C14: a failure of get_camera ends main with that error before the stream
\* is opened and before the redraw loop runs; the stream is opened and a
\* tick runs only after get_camera returned the configured device.
C14_FatalBeforeStream ==
    /\ err # NoErr => pc = "failed"
    /\ (pc = "failed" /\ failedAt \in GetCameraSteps) =>
          /\ err # NoErr
          /\ avail = 0
          /\ outcome = "none"
          /\ frame = NoFrame
          /\ ~repaint
    /\ (avail > 0 \/ outcome # "none" \/ pc \in AfterCommit) =>
          /\ failedAt \notin GetCameraSteps
          /\ dev # NoDev
          /\ Len(writes) = 1
          /\ devFormat = writes[1]

\* C14 witness: the commit was rejected and main ended, the stream unopened.
C14_Witness ==
    /\ pc = "failed"
    /\ failedAt = "set_format"
    /\ err # NoErr
    /\ avail = 0

\* C15: the listings are asked in the order formats, sizes, intervals, each
\* only after the search before it succeeded; a failing search reports its
\* own error and the later listings are not asked; the four errors of the
\* negotiation differ from each other and name their stage.
C15_StageOrder ==
    /\ queries \in {<<>>, <<"formats">>, <<"formats", "sizes">>,
                    <<"formats", "sizes", "intervals">>}
    /\ Len(queries) >= 2 => pixels.ok
    /\ Len(queries) = 3 => size.ok
    /\ (pc = "failed" /\ failedAt = "formats") =>
          (queries = <<"formats">> /\ err = ErrFormat)
    /\ (pc = "failed" /\ failedAt = "sizes") =>
          (queries = <<"formats", "sizes">> /\ err = ErrSize)
    /\ (pc = "failed" /\ failedAt = "intervals") =>
          (queries = <<"formats", "sizes", "intervals">> /\ err = ErrInterval)
    /\ (pc = "failed" /\ failedAt = "try_mut") => err = ErrPixFormat
    /\ Cardinality({ErrFormat, ErrSize, ErrInterval, ErrPixFormat}) = 4
    /\ err = ErrFormat => failedAt = "formats"
    /\ err = ErrSize => failedAt = "sizes"
    /\ err = ErrInterval => failedAt = "intervals"
    /\ err = ErrPixFormat => failedAt = "try_mut"

\* C15 witness: the size search failed after the format search succeeded
\* and the intervals were never asked.
C15_Witness ==
    /\ pc = "failed"
    /\ failedAt = "sizes"
    /\ queries = <<"formats", "sizes">>
    /\ err = ErrSize
    /\ pixels.ok

\* C16: once a tick is over a texture was shown in it exactly when the
\* acquisition, the decoder construction and the decode succeeded, and a
\* tick in which one of them failed logged once and rendered nothing.
C16_RenderIffDecoded ==
    (pc \in {"tick", "panicked"} /\ outcome # "none") =>
        /\ texture # NoTexture <=> frame.jpeg = "ok"
        /\ frame.jpeg # "ok" => (logged = 1 /\ texture = NoTexture)

\* C17: when the steps after the decode run (ColorImage, texture upload,
\* display) the buffer lock is already released.
C17_LockEndsWithDecode ==
    /\ pc = "render" => ~locked
    /\ (pc = "scope_end" /\ outcome = "rendered") => ~locked

\* C19: a failure to open a candidate device or to read its capabilities
\* ends get_camera at once with that error: no device is selected, nothing
\* is negotiated, and no further device is inspected.
C19_OpenFailureAborts ==
    /\ [](failedAt \in {"open", "capabilities"} =>
            /\ pc = "failed"
            /\ err = "io error"
            /\ dev = NoDev
            /\ queries = <<>>
            /\ writes = <<>>)
    /\ [][(failedAt \in {"open", "capabilities"})
            => (inspected' = inspected /\ last' = last /\ dev' = dev)]_vars

\* C19 witness: after a device that did not match, the next one failed to
\* open while the enumeration could have yielded more.
C19_Witness ==
    /\ pc = "failed"
    /\ failedAt = "open"
    /\ inspected = 1
    /\ inspected < MaxDevs
    /\ last # NoDev

\* the positions of the size listing whose entry yields the pair (320, 240)
TargetEntries ==
    {i \in DOMAIN listing : listing[i].ok /\ <<320, 240>> \in listing[i].sizes}

\* C20: in the format search and in the size search an entry the driver
\* reports as an error is passed over: the first matching entry is selected
\* also when error entries stand before it, and a search that fails reports
\* its own "not supported" error, never a driver error.
C20_ErrorEntriesSkipped ==
    /\ AfterFormatSearch =>
          /\ MjpegEntries # {} =>
                /\ pc = "sizes"
                /\ pixels.index \in MjpegEntries
                /\ \A j \in MjpegEntries : pixels.index <= j
          /\ pc = "failed" => err = "MJPG format not supported"
    /\ AfterSizeSearch =>
          /\ TargetEntries # {} =>
                /\ pc = "intervals"
                /\ size.index \in TargetEntries
                /\ \A j \in TargetEntries : size.index <= j
          /\ pc = "failed" => err = "320x240 resolution not supported"

\* C20 witness: the first entry of the format listing is an error, the
\* second is MJPEG and was selected.
C20_Witness ==
    /\ pc = "sizes"
    /\ Len(listing) >= 2
    /\ ~listing[1].ok
    /\ MjpegEntries = {2}
    /\ pixels.index = 2

====
